---- MODULE Spec2Model ----
(***************************************************************************)
(* Route optimization of the waste2wealth backend: the POST                *)
(* /optimize-route handler (validation, Gemini attempt, nearest-neighbour  *)
(* fallback, metrics) and fallbackOptimization.                            *)
(*                                                                         *)
(* Encoding of JavaScript values.  An object is a function from its own    *)
(* keys (strings) to scalars.  Scalars are integers: 0 stands for the      *)
(* falsy scalars (0 and ''), a positive number for a truthy number or a    *)
(* non-empty string, Undefined for undefined.  null is JsNull and a        *)
(* primitive array entry is JsNumber.  Array positions are 1-based here    *)
(* and 0-based in the source, so locations[idx] is locations[idx + 1].     *)
(* NonNumeric is a non-empty string that is no number (ToNumber gives NaN) *)
(* and NaN the number NaN, which res.json sends as null.                   *)
(*                                                                         *)
(* Distances of calculateDistance are in units of 10^-4 km, the reported   *)
(* metrics.totalDistance in units of 10^-2 km (its two decimals).          *)
(***************************************************************************)
EXTENDS Integers, Sequences, FiniteSets, TLC

VARIABLES
    pc,            \* position of the handler: "idle", "awaitGemini", "done"
    envKey,        \* process.env.GEMINI_API_KEY is set
    genAI,         \* the module-level client is non-null
    role,          \* req.user.role
    body,          \* req.body, as far as the handler reads it
    aiOutcome,     \* what the awaited Gemini call produced
    response,      \* what the handler sent
    geminiCalls,   \* number of model.generateContent calls made
    fallbackCalls, \* number of fallbackOptimization calls made
    requests,      \* the invocations of the handler that are in flight together
    locals,        \* the bindings locations, method of lines 53 and 72, by scope
    \* the admin page's route planner, lines 1340-2023
    currentRouteType,
    pickupLocations,
    deliveryLocations,
    optimizedRouteData,
    optimizedFor,  \* the route type whose locations optimizedRouteData was computed from
    optimizing,    \* the route type an optimizeCurrentRoute in flight has sent, or "none"
    loading,       \* the route types whose locations are being fetched
    exportResult,  \* what the last exportCurrentRoutePDF / CSV did
    \* the waste classifier, lines 2054-2506
    mobilenetModel,
    modelLoaded,
    modelLoadingPromise,
    loads,         \* the promises made by loadModel, by number
    runs,          \* the calls of loadModel and classifyFile in progress
    submitBtn      \* the submit button of the pickup form

adminVars == <<currentRouteType, pickupLocations, deliveryLocations, optimizedRouteData,
               optimizedFor, optimizing, loading, exportResult>>

classifierVars == <<mobilenetModel, modelLoaded, modelLoadingPromise, loads, runs, submitBtn>>

pageVars == <<adminVars, classifierVars>>

handlerVars == <<pc, envKey, genAI, role, body, aiOutcome, response, geminiCalls,
                 fallbackCalls, requests, locals>>

vars == <<handlerVars, pageVars>>

----------------------------------------------------------------------------
(* Bounds of the model *)

MaxStops == 3      \* longest locations array of a request
MaxAiLen == 2      \* longest optimizedOrder array in a Gemini answer
MaxLoads == 2      \* most model loads that loadModel starts

LatVals == {0, 1, 2}   \* latitudes of the requests, in degrees
LonVals == {0, 1, 2}   \* longitudes of the requests, in degrees

----------------------------------------------------------------------------
(* JavaScript values *)

Undefined == -1
Infinity == 1000000
NaN == -2
NonNumeric == 99999

JsNull == "#null" :> 1
JsNumber == "#number" :> 5

EmptyObject == [k \in {} |-> 0]

\* o.k of a non-null value: undefined when o has no own key k
Get(o, k) == IF k \in DOMAIN o THEN o[k] ELSE Undefined

\* ToBoolean
Truthy(v) == v # Undefined /\ v # 0

\* ToNumber of a scalar, as the operators - and * apply it
ToNumber(v) == IF v \in {Undefined, NonNumeric, NaN} THEN NaN ELSE v

\* a + b, a - b, a * b and a < b of numbers
Plus(a, b) == IF a = NaN \/ b = NaN THEN NaN ELSE a + b
Minus(a, b) == IF a = NaN \/ b = NaN THEN NaN ELSE a - b
Times(a, b) == IF a = NaN \/ b = NaN THEN NaN ELSE a * b
Less(a, b) == a # NaN /\ b # NaN /\ a < b

\* a || b
Or(a, b) == IF Truthy(a) THEN a ELSE b

\* { ...a, ...b }
Spread(a, b) == [k \in DOMAIN a \cup DOMAIN b |-> IF k \in DOMAIN b THEN b[k] ELSE a[k]]

\* JSON serialisation of an object by res.json: keys holding undefined are left out
Serialize(o) == [k \in {j \in DOMAIN o : o[j] # Undefined} |-> o[k]]

----------------------------------------------------------------------------
(* Requests *)

NameOf(i) == 100 + i

\* the caller's fields beside name, lat and lon
BarePayload == EmptyObject
FullPayload ==
    ("id" :> 11) @@ ("address" :> 12) @@ ("quantity" :> 13) @@ ("phone" :> 14) @@
    ("wasteType" :> 15) @@ ("pickupDate" :> 16) @@ ("pickupTime" :> 17) @@ ("isDepot" :> 1)
OddPayload ==
    ("id" :> 0) @@ ("_id" :> 21) @@ ("quantity" :> 0) @@ ("index" :> 22) @@
    ("stopNumber" :> 23) @@ ("orderNumber" :> 24)
Payloads == {BarePayload, FullPayload, OddPayload}

EntryKinds == {"stop", "noName", "noLat", "noLon", "null", "number"}

\* the entry at 1-based position i of a locations array
Entry(kind, i, lat, lon, payload) ==
    CASE kind = "stop"   -> Spread(payload, ("name" :> NameOf(i)) @@ ("lat" :> lat) @@ ("lon" :> lon))
      [] kind = "noName" -> Spread(payload, ("lat" :> lat) @@ ("lon" :> lon))
      [] kind = "noLat"  -> Spread(payload, ("name" :> NameOf(i)) @@ ("lon" :> lon))
      [] kind = "noLon"  -> Spread(payload, ("name" :> NameOf(i)) @@ ("lat" :> lat))
      [] kind = "null"   -> JsNull
      [] kind = "number" -> JsNumber

\* what one entry of a request is made from
EntryChoices ==
    {<<"stop", lat, lon>> : lat \in LatVals, lon \in LonVals}
    \cup {<<k, 1, 1>> : k \in EntryKinds \ {"stop"}}

\* req.body with a locations array made of the choices c and the payload p
ArrayBody(c, p) ==
    [kind |-> "array",
     locations |-> [i \in 1..Len(c) |-> Entry(c[i][1], i, c[i][2], c[i][3], p)]]

\* req.body without locations ("absent") or with locations that is no array
OtherBody(kind) == [kind |-> kind, locations |-> <<>>]

Roles == {"admin", "user"}

----------------------------------------------------------------------------
(* fallbackOptimization, lines 17-44 *)

\* dist, had lines 30-33 left the longitudes out
distOfLatitudes(loc, current) ==
    LET dLat == Minus(ToNumber(Get(loc, "lat")), ToNumber(Get(current, "lat")))
    IN Times(dLat, dLat)

\* Math.pow(loc.lat - current.lat, 2) + Math.pow(loc.lon - current.lon, 2): the
\* argument of Math.sqrt at lines 30-33.  Math.sqrt is strictly increasing, so the
\* comparison dist < minDist of line 34 is the comparison of these arguments.
dist(loc, current) ==
    LET dLat == Minus(ToNumber(Get(loc, "lat")), ToNumber(Get(current, "lat")))
        dLon == Minus(ToNumber(Get(loc, "lon")), ToNumber(Get(current, "lon")))
    IN Plus(Times(dLat, dLat), Times(dLon, dLon))

\* nearest, had line 34 compared with <=
RECURSIVE nearestLastOfTies(_, _, _, _, _)
nearestLastOfTies(unvisited, current, idx, nearestIdx, minDist) ==
    IF idx > Len(unvisited) THEN nearestIdx
    ELSE IF Less(dist(unvisited[idx], current), minDist) \/ dist(unvisited[idx], current) = minDist
         THEN nearestLastOfTies(unvisited, current, idx + 1, idx, dist(unvisited[idx], current))
         ELSE nearestLastOfTies(unvisited, current, idx + 1, nearestIdx, minDist)

\* the forEach of lines 29-38, from 1-based position idx on
RECURSIVE nearest(_, _, _, _, _)
nearest(unvisited, current, idx, nearestIdx, minDist) ==
    IF idx > Len(unvisited) THEN nearestIdx
    ELSE IF Less(dist(unvisited[idx], current), minDist)
         THEN nearest(unvisited, current, idx + 1, idx, dist(unvisited[idx], current))
         ELSE nearest(unvisited, current, idx + 1, nearestIdx, minDist)

\* splice, had line 40 been unvisited.splice(nearestIdx, 2)
spliceTwo(unvisited, i) ==
    [j \in 1..(Len(unvisited) - (IF i < Len(unvisited) THEN 2 ELSE 1)) |->
        IF j < i THEN unvisited[j] ELSE unvisited[j + 2]]

\* splice, had line 40 removed the last element of unvisited
spliceLast(unvisited, i) == SubSeq(unvisited, 1, Len(unvisited) - 1)

\* unvisited after unvisited.splice(i, 1)
splice(unvisited, i) ==
    [j \in 1..(Len(unvisited) - 1) |-> IF j < i THEN unvisited[j] ELSE unvisited[j + 1]]

\* the while loop of lines 23-41
RECURSIVE whileUnvisited(_, _)
whileUnvisited(route, unvisited) ==
    IF Len(unvisited) = 0 THEN route
    ELSE LET current == route[Len(route)]
             nearestIdx == nearest(unvisited, current, 1, 1, Infinity)
         IN whileUnvisited(Append(route, unvisited[nearestIdx]), splice(unvisited, nearestIdx))

\* fallbackOptimization, had line 18 returned the short list back to front
fallbackOptimizationShortReversed(locations) ==
    IF Len(locations) <= 2 THEN [i \in 1..Len(locations) |-> locations[Len(locations) + 1 - i]]
    ELSE whileUnvisited(<<Head(locations)>>, Tail(locations))

fallbackOptimization(locations) ==
    IF Len(locations) <= 2 THEN locations
    ELSE whileUnvisited(<<Head(locations)>>, Tail(locations))

\* unvisitedArray, had line 20 been const unvisited = locations
unvisitedIsArgument == "locations"

\* the array that unvisited names: line 20 spreads locations into a new array
unvisitedArray == "unvisited"

\* the arrays after fallbackOptimization has run on the array "locations" holding
\* these elements, and the array it returns: shift and splice (lines 21, 40) act
\* on the array unvisited names, which is empty when the loop of line 23 ends;
\* push (line 40) acts on "route", a new array (line 21)
arraysAfter(locations) ==
    IF Len(locations) <= 2
    THEN [returned |-> "locations",
          elements |-> [a \in {"locations"} |-> locations]]
    ELSE [returned |-> "route",
          elements |-> [a \in {"locations", unvisitedArray, "route"} |->
                          IF a = "route" THEN whileUnvisited(<<Head(locations)>>, Tail(locations))
                          ELSE IF a = unvisitedArray THEN <<>>
                          ELSE locations]]

----------------------------------------------------------------------------
(* Validation, lines 53-69 *)

\* the for-of loop of lines 63-69 from position i on: "ok", "invalid" (the 400 of
\* line 65) or "throw" (loc.lat of a null entry raises a TypeError)
RECURSIVE validateEach(_, _)
validateEach(locations, i) ==
    IF i > Len(locations) THEN "ok"
    ELSE IF locations[i] = JsNull THEN "throw"
    ELSE IF ~Truthy(Get(locations[i], "lat")) \/ ~Truthy(Get(locations[i], "lon"))
            \/ ~Truthy(Get(locations[i], "name"))
         THEN "invalid"
         ELSE validateEach(locations, i + 1)

\* lines 56-69
validate(b) ==
    IF b.kind # "array" \/ Len(b.locations) < 2 THEN "tooFew"
    ELSE validateEach(b.locations, 1)

----------------------------------------------------------------------------
(* Metrics and response, lines 161-197 *)

\* R * c of lines 162-172 for whole-degree coordinates, in 10^-4 km:
\* HaversineTable[lat1 + 1][lat2 + 1][|lon2 - lon1| + 1]
HaversineTable ==
    << << <<0, 1111949, 2223899>>, <<1111949, 1572494, 2486293>>, <<2223899, 2486293, 3144748>> >>,
       << <<1111949, 1572494, 2486293>>, <<0, 1111780, 2223560>>, <<1111949, 1572254, 2485687>> >>,
       << <<2223899, 2486293, 3144748>>, <<1111949, 1572254, 2485687>>, <<0, 1111272, 2222544>> >> >>

Abs(x) == IF x < 0 THEN 0 - x ELSE x

\* R * c of lines 162-172 for the other coordinates of the requests, in 10^-4 km,
\* by latitudes and |lon2 - lon1|
WideHaversine(lat1, lat2, dLon) ==
    CASE <<lat1, lat2, dLon>> = <<1, 1, 7>>   -> 7782458
      [] <<lat1, lat2, dLon>> = <<1, 91, 0>>  -> 100075434
      [] <<lat1, lat2, dLon>> = <<91, 1, 0>>  -> 100075434
      [] <<lat1, lat2, dLon>> = <<1, 91, 7>>  -> 100067147
      [] <<lat1, lat2, dLon>> = <<91, 1, 7>>  -> 100067147
      [] <<lat1, lat2, dLon>> = <<91, 91, 7>> -> 135759
      [] <<lat1, lat2, dLon>> = <<91, 91, 0>> -> 0

calculateDistance(loc1, loc2) ==
    LET lat1 == ToNumber(Get(loc1, "lat"))
        lat2 == ToNumber(Get(loc2, "lat"))
        dLon == Minus(ToNumber(Get(loc2, "lon")), ToNumber(Get(loc1, "lon")))
    IN IF lat1 = NaN \/ lat2 = NaN \/ dLon = NaN THEN NaN
       ELSE IF lat1 \in 0..2 /\ lat2 \in 0..2 /\ Abs(dLon) \in 0..2
            THEN HaversineTable[lat1 + 1][lat2 + 1][Abs(dLon) + 1]
            ELSE WideHaversine(lat1, lat2, Abs(dLon))

\* totalDistanceFrom, had the loop of line 175 stopped one pair early
RECURSIVE totalDistanceOneShort(_, _, _)
totalDistanceOneShort(optimizedOrder, i, totalDistance) ==
    IF i > Len(optimizedOrder) - 2 THEN totalDistance
    ELSE totalDistanceOneShort(optimizedOrder, i + 1,
            Plus(totalDistance, calculateDistance(optimizedOrder[i], optimizedOrder[i + 1])))

\* the loop of lines 174-177 from 1-based position i on
RECURSIVE totalDistanceFrom(_, _, _)
totalDistanceFrom(optimizedOrder, i, totalDistance) ==
    IF i > Len(optimizedOrder) - 1 THEN totalDistance
    ELSE totalDistanceFrom(optimizedOrder, i + 1,
            Plus(totalDistance, calculateDistance(optimizedOrder[i], optimizedOrder[i + 1])))

\* Math.round(x / q) for x >= 0 or NaN and q > 0
RoundDiv(x, q) == IF x = NaN THEN NaN ELSE (2 * x + q) \div (2 * q)

\* totalTime, had line 180 used the rounded distance of line 193
totalTimeOfReported(totalDistance, n) ==
    RoundDiv(Plus(Times(2, Times(100, RoundDiv(totalDistance, 100))), 10000 * (n * 5)), 10000)

\* lines 180-182, totalDistance in 10^-4 km
totalTime(totalDistance, n) ==
    RoundDiv(Plus(Times(2, totalDistance), 10000 * (n * 5)), 10000)

\* stopNumbered, had line 189 numbered the stops by idx
stopNumberedFromZero(optimizedOrder) ==
    [idx \in 1..Len(optimizedOrder) |->
        Serialize(Spread(optimizedOrder[idx], "stopNumber" :> (idx - 1)))]

\* lines 187-190 as serialised by res.json
stopNumbered(optimizedOrder) ==
    [idx \in 1..Len(optimizedOrder) |->
        Serialize(Spread(optimizedOrder[idx], "stopNumber" :> idx))]

NoMetrics == [totalStops |-> 0, totalDistance |-> 0, estimatedTime |-> 0, timeSaved |-> 0]

\* lines 184-197
successResponse(method, optimizedOrder) ==
    LET totalDistance == totalDistanceFrom(optimizedOrder, 1, 0)
    IN [status |-> 200,
        message |-> "",
        method |-> method,
        optimizedOrder |-> stopNumbered(optimizedOrder),
        metrics |-> [totalStops |-> Len(optimizedOrder),
                     totalDistance |-> RoundDiv(totalDistance, 100),
                     estimatedTime |-> totalTime(totalDistance, Len(optimizedOrder)),
                     timeSaved |-> Len(optimizedOrder) * 2]]

errorResponse(status, message) ==
    [status |-> status, message |-> message, method |-> "", optimizedOrder |-> <<>>,
     metrics |-> NoMetrics]

NoResponse == errorResponse(0, "")

----------------------------------------------------------------------------
(* The Gemini attempt, lines 75-159 *)

\* what the awaited calls of lines 119-121 and the parsing of lines 124-134 give:
\*   "reject"    generateContent, result.response or response.text() raises
\*   "noJson"    the text has no {...} (line 125)
\*   "badJson"   JSON.parse raises (line 129)
\*   "noOrder"   optimizedOrder is missing or falsy (line 132)
\*   "notArray"  optimizedOrder is truthy and no array (line 132)
AiFailures == {"reject", "noJson", "badJson", "noOrder", "notArray"}

\*   "order"     optimizedOrder is the array of indices given
\* totalDistance is a distance the text states beside optimizedOrder, Undefined
\* when it states none
AiFailure(kind) == [kind |-> kind, optimizedOrder |-> <<>>, totalDistance |-> Undefined]

\* the answer whose optimizedOrder is the array s
AiOrder(s, d) == [kind |-> "order", optimizedOrder |-> s, totalDistance |-> d]

\* the distances an answer may state, in 10^-2 km
AiDistances == {Undefined, 777}

\* the indices an answer to a prompt listing n locations may hold
AiIndices(n) == -1..n

NoOutcome == AiFailure("none")

\* lines 89-96, the element for the location at 0-based position idx
locationData(loc, idx) ==
    ("index" :> idx) @@ ("id" :> Or(Get(loc, "id"), Get(loc, "_id"))) @@
    ("name" :> Get(loc, "name")) @@ ("lat" :> Get(loc, "lat")) @@
    ("lon" :> Get(loc, "lon")) @@ ("address" :> Or(Get(loc, "address"), 0))

\* the object literal of lines 140-148
mergeEntry(original, dataItem) ==
    Spread(Spread(original, dataItem),
           ("quantity" :> Or(Get(original, "quantity"), Or(Get(dataItem, "quantity"), 0))) @@
           ("wasteType" :> Get(original, "wasteType")) @@
           ("phone" :> Get(original, "phone")) @@
           ("pickupDate" :> Get(original, "pickupDate")) @@
           ("pickupTime" :> Get(original, "pickupTime")))

\* locations[idx] is undefined, so original.quantity of line 143 raises a TypeError
mapThrows(locations, order) ==
    \E k \in 1..Len(order) : order[k] < 0 \/ order[k] >= Len(locations)

\* mapOrder, had the callback of line 137 taken the position for the index
mapOrderByPosition(locations, order) ==
    [k \in 1..Len(order) |-> mergeEntry(locations[k], locationData(locations[k], k - 1))]

\* lines 137-149, when no element raises
mapOrder(locations, order) ==
    [k \in 1..Len(order) |->
        mergeEntry(locations[order[k] + 1], locationData(locations[order[k] + 1], order[k]))]

\* where the try block of lines 75-153 raises, "none" when it runs to its end:
\*   "key" line 77, "call" lines 119-121, "match" line 126, "parse" line 129,
\*   "shape" line 133, "map" line 143
throwsAt(locations, o) ==
    CASE o.kind = "none"     -> "key"
      [] o.kind = "reject"   -> "call"
      [] o.kind = "noJson"   -> "match"
      [] o.kind = "badJson"  -> "parse"
      [] o.kind \in {"noOrder", "notArray"} -> "shape"
      [] o.kind = "order"    -> IF mapThrows(locations, o.optimizedOrder) THEN "map" ELSE "none"

\* caught, had the mapping of lines 137-149 been written after the catch block
caughtBeforeMapping(stage) == stage \in {"key", "call", "match", "parse", "shape"}

\* the statement raising at this stage lies inside try { } catch (geminiError):
\* lines 75-154 enclose all of them
caught(stage) == stage \in {"key", "call", "match", "parse", "shape", "map"}

\* the try block of lines 75-153 raises
geminiFails(locations, o) == throwsAt(locations, o) # "none"

\* methodOf, had line 157 been left out
methodNeverReset(failed) == "gemini"

\* method after lines 72-159
methodOf(failed) == IF failed THEN "fallback" ELSE "gemini"

\* orderOf, had line 158 assigned the input list itself
orderOfInputOnFailure(locations, o, failed) ==
    IF failed THEN locations
    ELSE mapOrder(locations, o.optimizedOrder)

\* optimizedOrder after lines 71-159
orderOf(locations, o, failed) ==
    IF failed THEN fallbackOptimization(locations)
    ELSE mapOrder(locations, o.optimizedOrder)

\* failureResponse, had the catch of lines 199-205 only logged the error
failureNotSent == NoResponse

\* lines 199-205
failureResponse == errorResponse(500, "Route optimization failed")

\* optimizeResponse, had line 158 been left out: optimizedOrder.length of line 175
\* raises on undefined and the outer catch answers
optimizeResponseNoFallbackCall(locations, o) ==
    LET failed == geminiFails(locations, o)
    IN IF failed THEN failureResponse
       ELSE successResponse(methodOf(failed), orderOf(locations, o, failed))

\* lines 71-205: the response once the Gemini attempt has ended with o, or has
\* not been made for want of a key (o = NoOutcome)
optimizeResponse(locations, o) ==
    LET failed == geminiFails(locations, o)
    IN IF failed /\ ~caught(throwsAt(locations, o))
       THEN failureResponse
       ELSE successResponse(methodOf(failed), orderOf(locations, o, failed))

----------------------------------------------------------------------------
(* The handler, lines 46-206 *)

\* the invocations of the handler that run together
Requests == {1, 2}

\* an invocation before its request has arrived
IdleRequest ==
    [pc |-> "idle", role |-> "none", body |-> OtherBody("absent"), aiOutcome |-> NoOutcome,
     response |-> NoResponse, reads |-> {}, inFlightWith |-> {}]

\* a scope whose bindings have not been initialised; writer is the invocation that
\* assigned a binding of the scope last
NoLocals == [locations |-> OtherBody("absent"), method |-> "", writer |-> 0]

\* no export has been asked for
NoExport == [done |-> "none", label |-> "", routeOf |-> ""]

\* lines 1341-1344
AdminInit ==
    /\ currentRouteType = "pickup"
    /\ pickupLocations = <<>>
    /\ deliveryLocations = <<>>
    /\ optimizedRouteData = JsNull
    /\ optimizedFor = "none"
    /\ optimizing = "none"
    /\ loading = {}
    /\ exportResult = NoExport

\* the calls of loadModel and classifyFile that run together
Runs == {1, 2}

\* a call that has not been made
NoRun == [kind |-> "none", pc |-> "idle", awaits |-> 0, disabled |-> FALSE]

\* lines 2054-2056; the button is enabled when the page has loaded
ClassifierInit ==
    /\ mobilenetModel = "null"
    /\ modelLoaded = FALSE
    /\ modelLoadingPromise = 0
    /\ loads = <<>>
    /\ runs = [i \in Runs |-> NoRun]
    /\ submitBtn = [disabled |-> FALSE]

Init ==
    /\ pc = "idle"
    /\ envKey \in BOOLEAN
    /\ genAI = envKey
    /\ role = "none"
    /\ body = OtherBody("absent")
    /\ aiOutcome = NoOutcome
    /\ response = NoResponse
    /\ geminiCalls = 0
    /\ fallbackCalls = 0
    /\ requests = [i \in Requests |-> IdleRequest]
    /\ locals = [i \in Requests |-> NoLocals]
    /\ AdminInit
    /\ ClassifierInit

\* keyMissing, had the check of line 76 been left out
keyNeverMissing == FALSE

\* the condition of line 76
keyMissing == ~envKey \/ ~genAI

\* PostOptimizeRoute, had the role check of lines 49-51 been left out
PostOptimizeRouteAnyRole(r, b) ==
    /\ pc = "idle"
    /\ role' = r
    /\ body' = b
    /\ UNCHANGED <<envKey, genAI, aiOutcome, requests, locals>>
    /\ CASE validate(b) = "tooFew" ->
              /\ response' = errorResponse(400,
                     "Please provide at least 2 locations with lat/lon coordinates")
              /\ pc' = "done"
              /\ UNCHANGED <<geminiCalls, fallbackCalls>>
         [] validate(b) = "invalid" ->
              /\ response' = errorResponse(400, "Each location must have name, lat, and lon")
              /\ pc' = "done"
              /\ UNCHANGED <<geminiCalls, fallbackCalls>>
         [] validate(b) = "throw" ->
              /\ response' = failureResponse
              /\ pc' = "done"
              /\ UNCHANGED <<geminiCalls, fallbackCalls>>
         [] validate(b) = "ok" /\ keyMissing ->
              /\ response' = optimizeResponse(b.locations, NoOutcome)
              /\ fallbackCalls' = fallbackCalls + 1
              /\ pc' = "done"
              /\ UNCHANGED geminiCalls
         [] validate(b) = "ok" /\ ~keyMissing ->
              /\ geminiCalls' = geminiCalls + 1
              /\ pc' = "awaitGemini"
              /\ UNCHANGED <<response, fallbackCalls>>

\* the request arrives and the handler runs to its response or to the await of
\* line 119
PostOptimizeRoute(r, b) ==
    /\ pc = "idle"
    /\ role' = r
    /\ body' = b
    /\ UNCHANGED <<envKey, genAI, aiOutcome, requests, locals>>
    /\ IF r # "admin"
       THEN /\ response' = errorResponse(403, "Admin access required")
            /\ pc' = "done"
            /\ UNCHANGED <<geminiCalls, fallbackCalls>>
       ELSE CASE validate(b) = "tooFew" ->
                   /\ response' = errorResponse(400,
                          "Please provide at least 2 locations with lat/lon coordinates")
                   /\ pc' = "done"
                   /\ UNCHANGED <<geminiCalls, fallbackCalls>>
              [] validate(b) = "invalid" ->
                   /\ response' = errorResponse(400, "Each location must have name, lat, and lon")
                   /\ pc' = "done"
                   /\ UNCHANGED <<geminiCalls, fallbackCalls>>
              [] validate(b) = "throw" ->
                   /\ response' = failureResponse
                   /\ pc' = "done"
                   /\ UNCHANGED <<geminiCalls, fallbackCalls>>
              [] validate(b) = "ok" /\ keyMissing ->
                   /\ response' = optimizeResponse(b.locations, NoOutcome)
                   /\ fallbackCalls' = fallbackCalls + 1
                   /\ pc' = "done"
                   /\ UNCHANGED geminiCalls
              [] validate(b) = "ok" /\ ~keyMissing ->
                   /\ geminiCalls' = geminiCalls + 1
                   /\ pc' = "awaitGemini"
                   /\ UNCHANGED <<response, fallbackCalls>>

\* the awaited Gemini call settles and the handler runs to its response
GeminiSettles(o) ==
    /\ pc = "awaitGemini"
    /\ aiOutcome' = o
    /\ response' = optimizeResponse(body.locations, o)
    /\ fallbackCalls' = IF geminiFails(body.locations, o) THEN fallbackCalls + 1 ELSE fallbackCalls
    /\ pc' = "done"
    /\ UNCHANGED <<envKey, genAI, role, body, geminiCalls, requests, locals>>

Next ==
    \/ pc = "idle" /\ \E r \in Roles, kind \in {"absent", "notArray"} :
            PostOptimizeRoute(r, OtherBody(kind)) /\ UNCHANGED pageVars
    \/ pc = "idle" /\ \E r \in Roles, n \in 0..MaxStops, p \in Payloads :
            \E c \in [1..n -> EntryChoices] :
                PostOptimizeRoute(r, ArrayBody(c, p)) /\ UNCHANGED pageVars
    \/ pc = "awaitGemini" /\ \E kind \in AiFailures :
            GeminiSettles(AiFailure(kind)) /\ UNCHANGED pageVars
    \/ pc = "awaitGemini" /\ \E k \in 0..MaxAiLen, d \in AiDistances :
            \E s \in [1..k -> AiIndices(Len(body.locations))] :
                GeminiSettles(AiOrder(s, d)) /\ UNCHANGED pageVars

Spec == Init /\ [][Next]_vars

\* The handler on an admin's requests whose stops pass line 64 with coordinates a
\* degree and more apart, outside [-90, 90], or no numbers at all
WideLatVals == {1, 91, NonNumeric}
WideLonVals == {1, 8}
WideChoices == {<<"stop", lat, lon>> : lat \in WideLatVals, lon \in WideLonVals}

CoordNext ==
    \/ pc = "idle" /\ \E n \in 2..MaxStops : \E c \in [1..n -> WideChoices] :
            PostOptimizeRoute("admin", ArrayBody(c, BarePayload)) /\ UNCHANGED pageVars
    \/ pc = "awaitGemini" /\ \E kind \in AiFailures :
            GeminiSettles(AiFailure(kind)) /\ UNCHANGED pageVars
    \/ pc = "awaitGemini" /\ \E k \in 0..MaxAiLen :
            \E s \in [1..k -> AiIndices(Len(body.locations))] :
                GeminiSettles(AiOrder(s, Undefined)) /\ UNCHANGED pageVars

CoordSpec == Init /\ [][CoordNext]_vars

----------------------------------------------------------------------------
(* Two invocations of the handler in flight together *)

\* binding, had locations and method been declared at module level
bindingShared(i) == 1

\* the scope holding the bindings of invocation i: const { locations } (line 53)
\* and let optimizedOrder, method (lines 71-72) are declared in the body of the
\* handler, so every invocation has its own
binding(i) == i

\* what the handler sends before line 119 is reached, NoResponse if it sends nothing
earlyResponse(r, b) ==
    IF r # "admin" THEN errorResponse(403, "Admin access required")
    ELSE CASE validate(b) = "tooFew" ->
                errorResponse(400, "Please provide at least 2 locations with lat/lon coordinates")
           [] validate(b) = "invalid" ->
                errorResponse(400, "Each location must have name, lat, and lon")
           [] validate(b) = "throw" -> failureResponse
           [] validate(b) = "ok" /\ keyMissing -> optimizeResponse(b.locations, NoOutcome)
           [] validate(b) = "ok" /\ ~keyMissing -> NoResponse

\* the request of invocation i arrives: lines 46-119, up to a response or the await
Arrives(i, r, b) ==
    LET early == earlyResponse(r, b)
        scope == binding(i)
        \* line 53, and lines 72 and 157 when they are reached
        method == IF validate(b) # "ok" THEN locals[scope].method
                  ELSE IF keyMissing THEN "fallback" ELSE "gemini"
    IN /\ requests[i].pc = "idle"
       /\ requests' = [requests EXCEPT ![i] =
              [pc |-> IF early = NoResponse THEN "awaitGemini" ELSE "done",
               role |-> r, body |-> b, aiOutcome |-> NoOutcome, response |-> early,
               reads |-> {}, inFlightWith |-> {}]]
       /\ locals' = IF r # "admin" THEN locals
                    ELSE [locals EXCEPT ![scope] =
                            [locations |-> b, method |-> method, writer |-> i]]
       /\ geminiCalls' = IF early = NoResponse THEN geminiCalls + 1 ELSE geminiCalls
       /\ fallbackCalls' = IF early.method = "fallback" THEN fallbackCalls + 1 ELSE fallbackCalls
       /\ UNCHANGED <<pc, envKey, genAI, role, body, aiOutcome, response>>

\* the Gemini call of invocation i settles with o: lines 119-206, which read
\* locations and method from the scope of the invocation
Settles(i, o) ==
    LET scope == binding(i)
        locations == locals[scope].locations.locations
        failed == geminiFails(locations, o)
        method == IF failed THEN "fallback" ELSE locals[scope].method
    IN /\ requests[i].pc = "awaitGemini"
       /\ requests' = [requests EXCEPT ![i] =
              [@ EXCEPT !.pc = "done",
                        !.aiOutcome = o,
                        !.response = IF failed /\ ~caught(throwsAt(locations, o))
                                     THEN failureResponse
                                     ELSE successResponse(method, orderOf(locations, o, failed)),
                        !.reads = {locals[scope].writer},
                        !.inFlightWith = {j \in Requests \ {i} : requests[j].pc = "awaitGemini"}]]
       /\ locals' = [locals EXCEPT ![scope] = [@ EXCEPT !.method = method, !.writer = i]]
       /\ fallbackCalls' = IF failed THEN fallbackCalls + 1 ELSE fallbackCalls
       /\ UNCHANGED <<pc, envKey, genAI, role, body, aiOutcome, response, geminiCalls>>

\* the requests and Gemini answers of the invocations that run together
ConcChoices == {<<"stop", 1, 1>>, <<"stop", 2, 2>>, <<"noLat", 1, 1>>}
ConcLengths == {1, 2, 3}
ConcIndices == {0, 1}
ConcAiLengths == {0, 1, 2}

ConcNext ==
    \/ \E i \in Requests : requests[i].pc = "idle" /\
            \E r \in Roles, n \in ConcLengths : \E c \in [1..n -> ConcChoices] :
                Arrives(i, r, ArrayBody(c, BarePayload)) /\ UNCHANGED pageVars
    \/ \E i \in Requests : requests[i].pc = "awaitGemini" /\
            \E kind \in AiFailures : Settles(i, AiFailure(kind)) /\ UNCHANGED pageVars
    \/ \E i \in Requests : requests[i].pc = "awaitGemini" /\
            \E k \in ConcAiLengths : \E s \in [1..k -> ConcIndices] :
                Settles(i, AiOrder(s, Undefined)) /\ UNCHANGED pageVars

ConcSpec == Init /\ [][ConcNext]_vars

----------------------------------------------------------------------------
(* The route planner of the admin page, lines 1340-2023.  Names and addresses *)
(* are numbers as in the requests; the coordinates are points of the grid of  *)
(* HaversineTable, the depot at (1, 1).                                       *)

RouteTypes == {"pickup", "delivery"}

\* lines 1347-1354
COMPOST_CENTER ==
    ("id" :> 900) @@ ("name" :> 901) @@ ("lat" :> 1) @@ ("lon" :> 1) @@
    ("address" :> 902) @@ ("isDepot" :> 1)

\* lines 1581-1584
demoPickups ==
    << ("id" :> 1) @@ ("name" :> 911) @@ ("lat" :> 2) @@ ("lon" :> 2) @@ ("address" :> 31) @@
       ("quantity" :> 3) @@ ("wasteType" :> 41),
       ("id" :> 2) @@ ("name" :> 912) @@ ("lat" :> 1) @@ ("lon" :> 2) @@ ("address" :> 32) @@
       ("quantity" :> 2) @@ ("wasteType" :> 42) >>

\* lines 1590-1593
demoDeliveries ==
    << ("id" :> 1) @@ ("name" :> 921) @@ ("lat" :> 2) @@ ("lon" :> 1) @@ ("address" :> 33) @@
       ("quantity" :> 50) @@ ("orderNumber" :> 51) @@ ("totalAmount" :> 1500),
       ("id" :> 2) @@ ("name" :> 922) @@ ("lat" :> 1) @@ ("lon" :> 2) @@ ("address" :> 34) @@
       ("quantity" :> 75) @@ ("orderNumber" :> 52) @@ ("totalAmount" :> 2250) >>

\* lines 1463-1477 on one pending pickup with coordinates
fetchedPickups ==
    << ("id" :> 3) @@ ("name" :> 913) @@ ("address" :> 35) @@ ("lat" :> 2) @@ ("lon" :> 1) @@
       ("quantity" :> 4) @@ ("phone" :> 61) @@ ("wasteType" :> 43) @@ ("pickupDate" :> 71) @@
       ("pickupTime" :> 72) >>

\* lines 1538-1549 on one confirmed order with coordinates
fetchedDeliveries ==
    << ("id" :> 4) @@ ("name" :> 923) @@ ("address" :> 36) @@ ("lat" :> 2) @@ ("lon" :> 2) @@
       ("quantity" :> 20) @@ ("phone" :> 62) @@ ("orderNumber" :> 53) @@
       ("totalAmount" :> 600) @@ ("status" :> 81) >>

\* what loadPickupsForRouting / loadDeliveriesForRouting can assign: the fetched
\* list, or the demo list when the fetch fails or gives nothing
LocationLists(type) ==
    IF type = "pickup" THEN {demoPickups, fetchedPickups}
    ELSE {demoDeliveries, fetchedDeliveries}

\* lines 1921-1930: clearCurrentRoute clears markers, line and stop list, and
\* leaves optimizedRouteData as it is
clearCurrentRoute(data) == data

\* lines 1357-1376
switchRouteType(type) ==
    /\ currentRouteType' = type
    /\ optimizedRouteData' = clearCurrentRoute(optimizedRouteData)
    /\ loading' = loading \cup {type}
    /\ UNCHANGED <<pickupLocations, deliveryLocations, optimizedFor, optimizing, exportResult>>

\* lines 1916-1919
refreshCurrentMap ==
    /\ optimizedRouteData' = clearCurrentRoute(optimizedRouteData)
    /\ loading' = loading \cup {currentRouteType}
    /\ UNCHANGED <<currentRouteType, pickupLocations, deliveryLocations, optimizedFor,
                   optimizing, exportResult>>

\* the fetch of loadPickupsForRouting / loadDeliveriesForRouting settles, lines
\* 1455-1494 and 1508-1576
LoadSettles(type, list) ==
    /\ type \in loading
    /\ loading' = loading \ {type}
    /\ pickupLocations' = IF type = "pickup" THEN list ELSE pickupLocations
    /\ deliveryLocations' = IF type = "delivery" THEN list ELSE deliveryLocations
    /\ UNCHANGED <<currentRouteType, optimizedRouteData, optimizedFor, optimizing, exportResult>>

\* lines 1640-1661: optimizeCurrentRoute up to its fetch, which the handler
\* receives with the role r of the token
optimizeCurrentRoute(r) ==
    LET locations == IF currentRouteType = "pickup" THEN pickupLocations
                     ELSE deliveryLocations
        locationsWithDepot == <<COMPOST_CENTER>> \o locations
    IN /\ optimizing = "none"
       /\ pc = "idle"
       /\ IF Len(locations) < 1
          THEN UNCHANGED <<handlerVars, adminVars>>
          ELSE /\ PostOptimizeRoute(r, [kind |-> "array", locations |-> locationsWithDepot])
               /\ optimizing' = currentRouteType
               /\ UNCHANGED <<currentRouteType, pickupLocations, deliveryLocations,
                              optimizedRouteData, optimizedFor, loading, exportResult>>

\* lines 1668-1685: result after the depot has been appended and the metrics
\* recalculated (calculateTotalDistance of lines 1701-1719 is the handler's sum)
resultWithReturn(result) ==
    LET routeWithReturn == Append(result.optimizedOrder, COMPOST_CENTER)
        totalDistance == totalDistanceFrom(routeWithReturn, 1, 0)
        stopTime == (Len(routeWithReturn) - 2) * 5
    IN [method |-> result.method,
        optimizedOrder |-> routeWithReturn,
        metrics |-> [totalStops |-> Len(routeWithReturn),
                     totalDistance |-> RoundDiv(totalDistance, 100),
                     estimatedTime |-> RoundDiv(Plus(Times(2, totalDistance), 10000 * stopTime),
                                                10000),
                     timeSaved |-> result.metrics.timeSaved]]

\* lines 1661-1698: the fetch of optimizeCurrentRoute has its answer; the handler
\* is ready for the next request
FetchAnswers ==
    /\ optimizing # "none"
    /\ pc = "done"
    /\ optimizedRouteData' = IF response.status = 200 THEN resultWithReturn(response)
                             ELSE optimizedRouteData
    /\ optimizedFor' = IF response.status = 200 THEN optimizing ELSE optimizedFor
    /\ optimizing' = "none"
    /\ pc' = "idle"
    /\ role' = "none"
    /\ body' = OtherBody("absent")
    /\ aiOutcome' = NoOutcome
    /\ response' = NoResponse
    /\ geminiCalls' = 0
    /\ fallbackCalls' = 0
    /\ UNCHANGED <<envKey, genAI, requests, locals>>
    /\ UNCHANGED <<currentRouteType, pickupLocations, deliveryLocations, loading, exportResult>>

\* lines 1944-1958 with exportRoutePDF / exportRouteCSV (lines 1960-2023), which
\* name the file and label its stops by currentRouteType
exportCurrentRoute(format) ==
    /\ exportResult' =
          IF optimizedRouteData = JsNull
          THEN [done |-> "Please optimize a route first", label |-> "", routeOf |-> ""]
          ELSE [done |-> format, label |-> currentRouteType, routeOf |-> optimizedFor]
    /\ UNCHANGED <<currentRouteType, pickupLocations, deliveryLocations, optimizedRouteData,
                   optimizedFor, optimizing, loading>>

AdminNext ==
    \/ \E type \in RouteTypes :
            switchRouteType(type) /\ UNCHANGED <<handlerVars, classifierVars>>
    \/ refreshCurrentMap /\ UNCHANGED <<handlerVars, classifierVars>>
    \/ \E type \in RouteTypes : \E list \in LocationLists(type) :
            LoadSettles(type, list) /\ UNCHANGED <<handlerVars, classifierVars>>
    \/ \E r \in Roles : optimizeCurrentRoute(r) /\ UNCHANGED classifierVars
    \/ pc = "awaitGemini" /\ optimizing # "none" /\ \E kind \in {"reject", "badJson"} :
            GeminiSettles(AiFailure(kind)) /\ UNCHANGED pageVars
    \/ pc = "awaitGemini" /\ optimizing # "none" /\
            \E k \in ConcAiLengths : \E s \in [1..k -> ConcIndices] :
                GeminiSettles(AiOrder(s, Undefined)) /\ UNCHANGED pageVars
    \/ FetchAnswers /\ UNCHANGED classifierVars
    \/ \E format \in {"pdf", "csv"} :
            exportCurrentRoute(format) /\ UNCHANGED <<handlerVars, classifierVars>>

AdminSpec == Init /\ [][AdminNext]_vars

----------------------------------------------------------------------------
(* The waste classifier, lines 2054-2506.  A promise made by loadModel is a  *)
(* number, its position in loads; modelLoadingPromise is 0 for null.         *)

\* loadModel, had line 2061 been left out
loadModelAlwaysStarts(loaded, promise) == IF loaded THEN "return" ELSE "start"

\* lines 2060-2063: what a call of loadModel does, for these values of
\* modelLoaded and modelLoadingPromise
loadModel(loaded, promise) ==
    IF loaded THEN "return"
    ELSE IF promise # 0 THEN "join"
    ELSE "start"

\* the module's variables after a call of loadModel: a new load runs up to its
\* first await (line 2069) and its promise is assigned (line 2063)
CallsLoadModel ==
    /\ loadModel(modelLoaded, modelLoadingPromise) = "start" => Len(loads) < MaxLoads
    /\ IF loadModel(modelLoaded, modelLoadingPromise) = "start"
       THEN /\ loads' = Append(loads, [state |-> "pending", stage |-> "webgl"])
            /\ modelLoadingPromise' = Len(loads) + 1
       ELSE UNCHANGED <<loads, modelLoadingPromise>>
    /\ UNCHANGED <<mobilenetModel, modelLoaded>>

\* the promise a call of loadModel returns, 0 when it returns at line 2060
PromiseOfLoadModel ==
    CASE loadModel(modelLoaded, modelLoadingPromise) = "return" -> 0
      [] loadModel(modelLoaded, modelLoadingPromise) = "join" -> modelLoadingPromise
      [] loadModel(modelLoaded, modelLoadingPromise) = "start" -> Len(loads) + 1

\* run i is not inside a call
Settled(i) == runs[i].pc \in {"idle", "returned", "rejected"}

\* window.loadModel() is called (line 2511)
LoadModelCalled(i) ==
    /\ Settled(i)
    /\ CallsLoadModel
    /\ runs' = [runs EXCEPT ![i] =
          [kind |-> "loadModel",
           pc |-> IF PromiseOfLoadModel = 0 THEN "returned" ELSE "awaitLoad",
           awaits |-> PromiseOfLoadModel,
           disabled |-> FALSE]]
    /\ UNCHANGED submitBtn

\* lines 2234-2247: classifyFile up to its first await
classifyFile(i) ==
    /\ Settled(i)
    /\ submitBtn' = [disabled |-> TRUE]
    /\ IF ~modelLoaded
       THEN /\ CallsLoadModel
            /\ runs' = [runs EXCEPT ![i] =
                  [kind |-> "classifyFile", pc |-> "awaitLoad", awaits |-> PromiseOfLoadModel,
                   disabled |-> TRUE]]
       ELSE /\ runs' = [runs EXCEPT ![i] =
                  [kind |-> "classifyFile", pc |-> "image", awaits |-> 0, disabled |-> TRUE]]
            /\ UNCHANGED <<mobilenetModel, modelLoaded, modelLoadingPromise, loads>>

\* lines 2068-2076: tf.setBackend / tf.ready of the load p settle; a failure with
\* WebGL leads to the CPU backend, a failure with the CPU to the catch of line 2088
BackendSettles(p, ok) ==
    /\ p \in 1..Len(loads)
    /\ loads[p].state = "pending"
    /\ loads[p].stage \in {"webgl", "cpu"}
    /\ IF ok
       THEN /\ loads' = [loads EXCEPT ![p].stage = "mobilenet"]
            /\ UNCHANGED modelLoadingPromise
       ELSE IF loads[p].stage = "webgl"
       THEN /\ loads' = [loads EXCEPT ![p].stage = "cpu"]
            /\ UNCHANGED modelLoadingPromise
       ELSE /\ loads' = [loads EXCEPT ![p] = [state |-> "rejected", stage |-> "done"]]
            /\ modelLoadingPromise' = 0
    /\ UNCHANGED <<mobilenetModel, modelLoaded, runs, submitBtn>>

\* lines 2080-2093: mobilenet.load of the load p settles
MobilenetSettles(p, ok) ==
    /\ p \in 1..Len(loads)
    /\ loads[p].state = "pending"
    /\ loads[p].stage = "mobilenet"
    /\ IF ok
       THEN /\ mobilenetModel' = "model"
            /\ modelLoaded' = TRUE
            /\ loads' = [loads EXCEPT ![p] = [state |-> "fulfilled", stage |-> "done"]]
            /\ UNCHANGED modelLoadingPromise
       ELSE /\ loads' = [loads EXCEPT ![p] = [state |-> "rejected", stage |-> "done"]]
            /\ modelLoadingPromise' = 0
            /\ UNCHANGED <<mobilenetModel, modelLoaded>>
    /\ UNCHANGED <<runs, submitBtn>>

\* the promise run i awaits has settled: loadModel returns or throws to its
\* caller; in classifyFile the await of line 2246 stands before the try of line
\* 2249, so a rejection leaves classifyFile at once
LoadAwaited(i) ==
    /\ runs[i].pc = "awaitLoad"
    /\ loads[runs[i].awaits].state # "pending"
    /\ runs' = [runs EXCEPT ![i].pc =
          IF loads[runs[i].awaits].state = "rejected" THEN "rejected"
          ELSE IF runs[i].kind = "classifyFile" THEN "image"
          ELSE "returned"]
    /\ UNCHANGED <<mobilenetModel, modelLoaded, modelLoadingPromise, loads, submitBtn>>

\* lines 2249-2276: loadImageRobustly, normalizeImage and the blank check; a
\* failure goes to the catch of lines 2302-2322, which calls enableSubmitBtn
ImageSettles(i, ok) ==
    /\ runs[i].pc = "image"
    /\ runs' = [runs EXCEPT ![i].pc = IF ok THEN "classify" ELSE "returned"]
    /\ submitBtn' = IF ok THEN submitBtn ELSE [disabled |-> FALSE]
    /\ UNCHANGED <<mobilenetModel, modelLoaded, modelLoadingPromise, loads>>

\* lines 2283-2322: mobilenetModel.classify settles; analyzeAndDisplay ends with
\* enableSubmitBtn (line 2496), and so does the catch
ClassifySettles(i, ok) ==
    /\ runs[i].pc = "classify"
    /\ runs' = [runs EXCEPT ![i].pc = "returned"]
    /\ submitBtn' = [disabled |-> FALSE]
    /\ UNCHANGED <<mobilenetModel, modelLoaded, modelLoadingPromise, loads>>

ClassifierNext ==
    \/ \E i \in Runs : LoadModelCalled(i) /\ UNCHANGED <<handlerVars, adminVars>>
    \/ \E i \in Runs : classifyFile(i) /\ UNCHANGED <<handlerVars, adminVars>>
    \/ \E p \in 1..Len(loads), ok \in BOOLEAN :
            BackendSettles(p, ok) /\ UNCHANGED <<handlerVars, adminVars>>
    \/ \E p \in 1..Len(loads), ok \in BOOLEAN :
            MobilenetSettles(p, ok) /\ UNCHANGED <<handlerVars, adminVars>>
    \/ \E i \in Runs : LoadAwaited(i) /\ UNCHANGED <<handlerVars, adminVars>>
    \/ \E i \in Runs, ok \in BOOLEAN :
            ImageSettles(i, ok) /\ UNCHANGED <<handlerVars, adminVars>>
    \/ \E i \in Runs, ok \in BOOLEAN :
            ClassifySettles(i, ok) /\ UNCHANGED <<handlerVars, adminVars>>

ClassifierSpec == Init /\ [][ClassifierNext]_vars

----------------------------------------------------------------------------
(* Vocabulary of the properties *)

Responded == pc = "done"

IsRouteResult == response.status = 200

\* the request is past line 69: an admin's array of at least 2 entries, each an
\* object with truthy name, lat and lon
PassedValidation ==
    /\ role = "admin"
    /\ body.kind = "array"
    /\ Len(body.locations) >= 2
    /\ \A i \in 1..Len(body.locations) :
          /\ body.locations[i] # JsNull
          /\ Truthy(Get(body.locations[i], "name"))
          /\ Truthy(Get(body.locations[i], "lat"))
          /\ Truthy(Get(body.locations[i], "lon"))

\* the positions of order holding the stop of this name
PositionsOf(order, name) == {k \in 1..Len(order) : Get(order[k], "name") = name}

\* every AI step ran to its end: a key, an answer holding an array, every index
\* that of an input stop
AiStepsCompleted ==
    /\ envKey /\ genAI
    /\ aiOutcome.kind = "order"
    /\ \A k \in 1..Len(aiOutcome.optimizedOrder) :
          aiOutcome.optimizedOrder[k] \in 0..(Len(body.locations) - 1)

\* the returned order follows the indices of the answer
IsAiMapping ==
    /\ Len(response.optimizedOrder) = Len(aiOutcome.optimizedOrder)
    /\ \A k \in 1..Len(aiOutcome.optimizedOrder) :
          LET loc == body.locations[aiOutcome.optimizedOrder[k] + 1]
          IN /\ response.optimizedOrder[k]["name"] = loc["name"]
             /\ response.optimizedOrder[k]["lat"] = loc["lat"]
             /\ response.optimizedOrder[k]["lon"] = loc["lon"]

\* the returned order is the output of fallbackOptimization, numbered
IsFallbackOrder ==
    response.optimizedOrder = stopNumbered(fallbackOptimization(body.locations))

\* the sum of the Distance Model over the consecutive pairs of order, in 10^-4 km
RECURSIVE HaversineSum(_)
HaversineSum(order) ==
    IF Len(order) < 2 THEN 0
    ELSE Plus(calculateDistance(order[1], order[2]), HaversineSum(Tail(order)))

\* x, in 10^-4 km, rounded to two decimals of a km (half up), in 10^-2 km
RoundedTo2Decimals(x) == IF x = NaN THEN NaN ELSE (x + 50) \div 100

----------------------------------------------------------------------------
(* C1 - C10 *)

\* C1: once validation has passed, the handler ends with a success response
\* carrying method, optimizedOrder and metrics, and never with an error
\* response, whatever the Gemini attempt did.
C1_AlwaysRouteResult ==
    (Responded /\ PassedValidation) =>
        /\ response.status = 200
        /\ response.method \in {"gemini", "fallback"}
        /\ response.metrics.totalStops = Len(response.optimizedOrder)

\* C1 witness: Gemini answered with an index that names no stop, and the
\* handler still answered with a result.
C1_Witness ==
    /\ Responded /\ PassedValidation
    /\ aiOutcome.kind = "order"
    /\ mapThrows(body.locations, aiOutcome.optimizedOrder)
    /\ response.status = 200

\* C2 (as claimed): the returned optimizedOrder is a permutation of the input
\* locations, same length and every input stop exactly once, for both methods.
C2_OrderIsPermutation ==
    (Responded /\ IsRouteResult) =>
        /\ Len(response.optimizedOrder) = Len(body.locations)
        /\ \A i \in 1..Len(body.locations) :
              Cardinality(PositionsOf(response.optimizedOrder, body.locations[i]["name"])) = 1

\* C3 (as claimed): the first element of the returned optimizedOrder is the
\* first input location, for both methods.
C3_StartFixed ==
    (Responded /\ IsRouteResult) =>
        /\ Len(response.optimizedOrder) >= 1
        /\ response.optimizedOrder[1]["name"] = body.locations[1]["name"]

\* C4 (as claimed): every field of an input stop is on its entry of
\* optimizedOrder with the same value, and stopNumber is the only field added.
C4_PayloadPreserved ==
    (Responded /\ IsRouteResult) =>
        \A k \in 1..Len(response.optimizedOrder) :
            \A i \in 1..Len(body.locations) :
                (body.locations[i]["name"] = response.optimizedOrder[k]["name"]) =>
                    /\ \A f \in DOMAIN body.locations[i] :
                          /\ f \in DOMAIN response.optimizedOrder[k]
                          /\ response.optimizedOrder[k][f] = body.locations[i][f]
                    /\ (DOMAIN response.optimizedOrder[k]) \ (DOMAIN body.locations[i])
                          \subseteq {"stopNumber"}

\* a stop (an object of the array) lacks name, lat or lon
HasStopMissingField ==
    \E i \in 1..Len(body.locations) :
        /\ body.locations[i] # JsNull
        /\ \E f \in {"name", "lat", "lon"} : f \notin DOMAIN body.locations[i]

\* C5 (as claimed): an admin's request whose locations is absent, no array,
\* shorter than 2 or holds a stop missing name, lat or lon is answered 400, and
\* neither Gemini nor fallbackOptimization is called for it.
C5_InvalidRejected ==
    (/\ Responded
     /\ role = "admin"
     /\ (body.kind # "array" \/ Len(body.locations) < 2 \/ HasStopMissingField)) =>
        /\ response.status = 400
        /\ geminiCalls = 0
        /\ fallbackCalls = 0

\* at least 2 stops, each with a non-empty name, a latitude in [-90, 90] and a
\* longitude in [-180, 180]
IsWellFormedRequest ==
    /\ body.kind = "array"
    /\ Len(body.locations) >= 2
    /\ \A i \in 1..Len(body.locations) :
          /\ {"name", "lat", "lon"} \subseteq DOMAIN body.locations[i]
          /\ body.locations[i]["name"] > 0
          /\ body.locations[i]["lat"] \in -90..90
          /\ body.locations[i]["lon"] \in -180..180

\* C6 (as claimed): an admin's well-formed request, latitude or longitude 0
\* included, passes validation and yields a RouteResult.
C6_WellFormedAccepted ==
    (Responded /\ role = "admin" /\ IsWellFormedRequest) => IsRouteResult

\* C7 (as claimed): whatever the body of an admin's request, the outcome is a
\* RouteResult or a validation error, never the 500 'Route optimization failed'.
C7_ResultOrValidationError ==
    (Responded /\ role = "admin") => response.status \in {200, 400}

\* C8: method is 'gemini' exactly when every AI step completed, and then the
\* order is the AI mapping; it is 'fallback' exactly when some AI step failed,
\* and then the order is the output of fallbackOptimization.
C8_MethodNamesStrategy ==
    (Responded /\ IsRouteResult) =>
        /\ (response.method = "gemini") <=> AiStepsCompleted
        /\ (response.method = "fallback") <=> ~AiStepsCompleted
        /\ (response.method = "gemini") => IsAiMapping
        /\ (response.method = "fallback") => IsFallbackOrder

\* C8 witness: a result tagged 'gemini' whose order is Gemini's and differs
\* from the one fallbackOptimization gives.
C8_Witness ==
    /\ Responded /\ IsRouteResult
    /\ response.method = "gemini"
    /\ Len(response.optimizedOrder) >= 2
    /\ IsAiMapping
    /\ ~IsFallbackOrder

\* C9: when the key is missing, the call raises, the text has no JSON object,
\* the JSON does not parse, or optimizedOrder is absent or no array, the result
\* has method 'fallback' and its order is fallbackOptimization(locations).
C9_FailureFallsBack ==
    (/\ Responded /\ PassedValidation
     /\ (~envKey \/ ~genAI \/ aiOutcome.kind \in AiFailures)) =>
        /\ IsRouteResult
        /\ response.method = "fallback"
        /\ IsFallbackOrder

\* C9 witness: the JSON of the answer did not parse, and the result is the
\* nearest-neighbour route of 3 stops, which is not the input order.
C9_Witness ==
    /\ Responded /\ PassedValidation
    /\ aiOutcome.kind = "badJson"
    /\ response.method = "fallback"
    /\ Len(response.optimizedOrder) = 3
    /\ response.optimizedOrder[2]["name"] = body.locations[3]["name"]

\* C10: metrics.totalDistance is the sum of the Haversine distances over the
\* consecutive pairs of the returned optimizedOrder, rounded to 2 decimals, for
\* both methods, whatever distance the answer of Gemini states.
C10_DistanceOfReturnedOrder ==
    (Responded /\ IsRouteResult) =>
        response.metrics.totalDistance =
            RoundedTo2Decimals(HaversineSum(response.optimizedOrder))

\* C10 witness: a 'gemini' result of at least 2 stops whose answer stated a
\* distance, which is not the distance reported.
C10_Witness ==
    /\ Responded /\ IsRouteResult
    /\ response.method = "gemini"
    /\ Len(response.optimizedOrder) >= 2
    /\ aiOutcome.totalDistance # Undefined
    /\ response.metrics.totalDistance > 0
    /\ response.metrics.totalDistance # aiOutcome.totalDistance

----------------------------------------------------------------------------
(* C11 - C20 *)

\* the estimate of the spec's formula from the reported distance, in minutes
EstimateOfReported ==
    LET R == response.metrics.totalDistance
        n == Len(response.optimizedOrder)
    IN IF R = NaN THEN NaN ELSE (2 * R + 500 * n + 50) \div 100

\* the same formula from the sum of the Distance Model before it is rounded
EstimateOfSum ==
    LET H == HaversineSum(response.optimizedOrder)
        n == Len(response.optimizedOrder)
    IN IF H = NaN THEN NaN ELSE (2 * H + 50000 * n + 5000) \div 10000

\* C11 as stated: estimatedTime is round((d / 30) * 60 + 5 * n) for d the reported
\* 2-decimal total distance and n the length of the returned order.
C11_EstimateFromReported ==
    Responded /\ IsRouteResult => response.metrics.estimatedTime = EstimateOfReported

\* C11, amended: estimatedTime is round((d / 30) * 60 + 5 * n) for d the sum of the
\* Distance Model over the returned order before it is rounded to two decimals.
C11_EstimateFromSum ==
    Responded /\ IsRouteResult => response.metrics.estimatedTime = EstimateOfSum

\* a result whose estimate differs from the one the reported distance gives
C11_Witness ==
    /\ Responded /\ IsRouteResult
    /\ response.metrics.estimatedTime # NaN
    /\ response.metrics.estimatedTime # EstimateOfReported

\* C12: in every route result the entry at 0-based position i carries stopNumber
\* i + 1, so the stop numbers run 1..n without gaps in the returned sequence, and
\* metrics.totalStops is the number n of returned entries.
C12_StopNumbers ==
    Responded /\ IsRouteResult =>
        /\ \A k \in 1..Len(response.optimizedOrder) :
              Get(response.optimizedOrder[k], "stopNumber") = k
        /\ response.metrics.totalStops = Len(response.optimizedOrder)

\* a result of several stops whose request carried stop numbers of its own
C12_Witness ==
    /\ Responded /\ IsRouteResult
    /\ Len(response.optimizedOrder) >= 2
    /\ \A i \in 1..Len(body.locations) : Get(body.locations[i], "stopNumber") = 23
    /\ response.optimizedOrder[2]["stopNumber"] = 2

\* C13: within one request model.generateContent is called at most once: once
\* when a key is configured and validation passed, never when no key is configured
\* or the request was rejected; after a failure of that call the handler goes to
\* fallbackOptimization, once, without calling Gemini again.
C13_SingleAttempt ==
    /\ geminiCalls <= 1
    /\ pc # "idle" => (geminiCalls = 1 <=> PassedValidation /\ envKey /\ genAI)
    /\ Responded /\ geminiCalls = 1 /\ geminiFails(body.locations, aiOutcome) =>
          /\ fallbackCalls = 1
          /\ response.method = "fallback"
          /\ IsFallbackOrder

\* a request whose single Gemini call failed and was answered by the heuristic
C13_Witness ==
    /\ Responded
    /\ geminiCalls = 1
    /\ aiOutcome.kind = "reject"
    /\ fallbackCalls = 1
    /\ response.method = "fallback"

\* the number of positions of order holding the entry x
CountIn(order, x) == Cardinality({k \in 1..Len(order) : order[k] = x})

\* a and b hold the same entries the same number of times
IsPermutationOf(a, b) ==
    /\ Len(a) = Len(b)
    /\ \A k \in 1..Len(b) : CountIn(a, b[k]) = CountIn(b, b[k])

\* the request carries a list whose entries are all objects
IsListOfObjects ==
    /\ body.kind = "array"
    /\ \A i \in 1..Len(body.locations) : body.locations[i] # JsNull

\* the handler answered with the output of fallbackOptimization
AnsweredByFallback == Responded /\ IsRouteResult /\ response.method = "fallback"

\* the names of the stops of order, in order
NamesOf(order) == [k \in 1..Len(order) |-> Get(order[k], "name")]

\* C14: for every list of stops, of valid coordinates or not, fallbackOptimization
\* returns a permutation of the list whose first element is the first element of
\* the list.
C14_FallbackIsPermutation ==
    IsListOfObjects =>
        LET route == fallbackOptimization(body.locations)
        IN /\ IsPermutationOf(route, body.locations)
           /\ Len(body.locations) >= 1 => route[1] = body.locations[1]

\* a request of three stops answered by the heuristic in another order than sent
C14_Witness ==
    /\ AnsweredByFallback
    /\ NamesOf(body.locations) = <<NameOf(1), NameOf(2), NameOf(3)>>
    /\ NamesOf(response.optimizedOrder) = <<NameOf(1), NameOf(3), NameOf(2)>>

\* C15: for a list of at most 2 stops fallbackOptimization returns the stops in
\* their input order, unchanged.
C15_ShortListUnchanged ==
    /\ IsListOfObjects /\ Len(body.locations) <= 2 =>
          fallbackOptimization(body.locations) = body.locations
    /\ AnsweredByFallback /\ Len(body.locations) <= 2 =>
          NamesOf(response.optimizedOrder) = NamesOf(body.locations)

\* a request of two stops at different latitudes answered by the heuristic
C15_Witness ==
    /\ AnsweredByFallback
    /\ Len(body.locations) = 2
    /\ body.locations[1]["lat"] # body.locations[2]["lat"]
    /\ NamesOf(response.optimizedOrder) = <<NameOf(1), NameOf(2)>>

\* every stop of the request has numbers for lat and lon
HasNumericCoordinates ==
    \A i \in 1..Len(body.locations) :
        /\ ToNumber(Get(body.locations[i], "lat")) # NaN
        /\ ToNumber(Get(body.locations[i], "lon")) # NaN

\* the square of the Euclidean distance of a and b in degrees
SquaredEuclid(a, b) ==
    (a["lat"] - b["lat"]) * (a["lat"] - b["lat"]) + (a["lon"] - b["lon"]) * (a["lon"] - b["lon"])

C17_TieToEarliest ==
    AnsweredByFallback /\ Len(body.locations) > 2 /\ HasNumericCoordinates =>
        LET route == response.optimizedOrder
        IN \A k \in 2..Len(route) : \A j \in (k + 1)..Len(route) :
              SquaredEuclid(route[k], route[k - 1]) = SquaredEuclid(route[j], route[k - 1])
                  => route[k]["name"] < route[j]["name"]

\* a heuristic answer with two distinct stops equally near to the first
C17_Witness ==
    /\ AnsweredByFallback /\ HasNumericCoordinates
    /\ Len(body.locations) = 3
    /\ body.locations[2]["lon"] # body.locations[3]["lon"]
    /\ SquaredEuclid(body.locations[2], body.locations[1])
          = SquaredEuclid(body.locations[3], body.locations[1])
    /\ NamesOf(response.optimizedOrder) = <<NameOf(1), NameOf(2), NameOf(3)>>

\* v is a number of the interval [-bound, bound]
IsNumberWithin(v, bound) == ToNumber(v) # NaN /\ v >= 0 - bound /\ v <= bound

\* some stop of the request has a coordinate that is no number or out of range
HasInvalidCoordinate ==
    \E i \in 1..Len(body.locations) :
        \/ ~IsNumberWithin(Get(body.locations[i], "lat"), 90)
        \/ ~IsNumberWithin(Get(body.locations[i], "lon"), 180)

\* C19 as stated: a request holding a stop with a non-numeric or out-of-range
\* coordinate is stopped by validation: it reaches neither Gemini, nor the
\* heuristic, nor the metrics, and is not answered with a route.
C19_InvalidCoordinatesStopped ==
    pc # "idle" /\ body.kind = "array" /\ HasInvalidCoordinate =>
        /\ geminiCalls = 0
        /\ fallbackCalls = 0
        /\ ~IsRouteResult

\* what the handler answers to the request of invocation i when no other
\* invocation runs: a function of the request, the key and the Gemini outcome
SoloResponse(i) ==
    LET early == earlyResponse(requests[i].role, requests[i].body)
    IN IF early # NoResponse THEN early
       ELSE optimizeResponse(requests[i].body.locations, requests[i].aiOutcome)

\* C20: under every interleaving of two invocations of the handler, each suspended
\* at its Gemini call, the response of an invocation is the one its own request
\* and its own Gemini outcome give when it runs alone, and the bindings it reads
\* after the await were last written by itself.
C20_RequestsIndependent ==
    \A i \in Requests :
        /\ requests[i].pc = "done" => requests[i].response = SoloResponse(i)
        /\ requests[i].reads \subseteq {i}

\* both invocations have answered different requests, the first by the
\* heuristic after a failed call that settled while the second was suspended at
\* its own call, the second by Gemini's order
C20_Witness ==
    /\ requests[1].pc = "done" /\ requests[2].pc = "done"
    /\ requests[1].inFlightWith = {2}
    /\ requests[1].body # requests[2].body
    /\ requests[1].response.method = "fallback"
    /\ requests[2].response.method = "gemini"
    /\ requests[1].reads = {1} /\ requests[2].reads = {2}

----------------------------------------------------------------------------
(* C21 - C30 *)

\* C21: a caller whose role is not 'admin' is answered 403 'Admin access
\* required' by the first step of the handler, whatever the body, and neither
\* Gemini nor fallbackOptimization is called for the request.
C21_NonAdminRefused ==
    pc # "idle" /\ role # "admin" =>
        /\ Responded
        /\ response.status = 403
        /\ response.message = "Admin access required"
        /\ response.optimizedOrder = <<>>
        /\ geminiCalls = 0
        /\ fallbackCalls = 0

\* a user's request that would pass validation, refused
C21_Witness ==
    /\ Responded
    /\ role = "user"
    /\ validate(body) = "ok"
    /\ response.status = 403

\* C22: when every AI step completed, the returned order has as many entries as
\* the array of Gemini's answer, and its entry at each position has the name, lat
\* and lon of the input stop at the index the answer holds at that position.
C22_OrderFollowsIndices ==
    Responded /\ AiStepsCompleted =>
        /\ IsRouteResult
        /\ Len(response.optimizedOrder) = Len(aiOutcome.optimizedOrder)
        /\ \A k \in 1..Len(aiOutcome.optimizedOrder) :
              \A f \in {"name", "lat", "lon"} :
                  response.optimizedOrder[k][f] = body.locations[aiOutcome.optimizedOrder[k] + 1][f]

\* Gemini answered [2, 1] for three stops, and the result is the third stop, then
\* the second
C22_Witness ==
    /\ Responded /\ AiStepsCompleted
    /\ aiOutcome.optimizedOrder = <<2, 1>>
    /\ NamesOf(response.optimizedOrder) = <<NameOf(3), NameOf(2)>>

\* the answer of Gemini holds an index that is the index of no input stop
HasForeignIndex ==
    /\ aiOutcome.kind = "order"
    /\ \E k \in 1..Len(aiOutcome.optimizedOrder) :
          aiOutcome.optimizedOrder[k] \notin 0..(Len(body.locations) - 1)

C25_ExactlyOneResponse ==
    /\ []((pc = "done") <=> (response # NoResponse))
    /\ [][response # NoResponse => response' = response]_vars

\* a handler that waited for Gemini and then answered, and one that answered 500
\* from its outer catch
C25_Witness ==
    /\ Responded
    /\ response # NoResponse
    /\ \/ geminiCalls = 1 /\ response.status = 200 /\ response.method = "gemini"
       \/ response.status = 500

\* the lengths of unvisited at the start of the passes of the loop of lines 23-41
\* that begins with these route and unvisited
RECURSIVE UnvisitedLengths(_, _)
UnvisitedLengths(route, unvisited) ==
    IF Len(unvisited) = 0 THEN <<>>
    ELSE LET nearestIdx == nearest(unvisited, route[Len(route)], 1, 1, Infinity)
         IN <<Len(unvisited)>> \o
            UnvisitedLengths(Append(route, unvisited[nearestIdx]), splice(unvisited, nearestIdx))

\* C23: for every validated list of n > 2 stops, with equal or incomparable (NaN)
\* distances too, the loop of fallbackOptimization makes n - 1 passes, each leaving
\* unvisited one stop shorter, and returns a route of n stops; the handler never
\* answers an error where it ran the heuristic.
C23_HeuristicAlwaysSucceeds ==
    PassedValidation /\ Len(body.locations) > 2 =>
        LET n == Len(body.locations)
        IN /\ UnvisitedLengths(<<Head(body.locations)>>, Tail(body.locations))
                 = [k \in 1..(n - 1) |-> n - k]
           /\ Len(fallbackOptimization(body.locations)) = n
           /\ Responded /\ fallbackCalls = 1 => AnsweredByFallback

\* three stops, one with a latitude that is no number, answered by the heuristic
\* in their input order
C23_Witness ==
    /\ AnsweredByFallback
    /\ Len(body.locations) = 3
    /\ ~HasNumericCoordinates
    /\ NamesOf(response.optimizedOrder) = <<NameOf(1), NameOf(2), NameOf(3)>>

IsDepot(loc) == Truthy(Get(loc, "isDepot"))

\* C24 as stated: the route stored by a successful optimizeCurrentRoute starts with
\* the depot and ends with the depot the page appended, with no depot between
\* them, whichever method the handler reports.
C24_DepotAtBothEnds ==
    optimizedRouteData # JsNull =>
        LET route == optimizedRouteData.optimizedOrder
        IN /\ Len(route) >= 2
           /\ IsDepot(route[1])
           /\ route[Len(route)] = COMPOST_CENTER
           /\ \A k \in 2..(Len(route) - 1) : ~IsDepot(route[k])

\* C30 as stated: a stored optimizedRouteData was computed from the locations of
\* the current route type, and no export puts the route of one route type in a
\* file of the other: after the type is switched the exports refuse until a route
\* is optimized anew.
C30_RouteOfCurrentType ==
    /\ optimizedRouteData # JsNull /\ optimizing = "none" => optimizedFor = currentRouteType
    /\ exportResult.done \in {"pdf", "csv"} => exportResult.routeOf = exportResult.label

\* the loads in progress
PendingLoads == {p \in 1..Len(loads) : loads[p].state = "pending"}

\* a call made by run i has just reached an await on a promise of loadModel
Arrives28(i) == ~(runs[i].pc = "awaitLoad") /\ runs'[i].pc = "awaitLoad"

C29_ButtonReenabled ==
    (\A i \in Runs : Settled(i)) => ~submitBtn.disabled

====
